---- MODULE Spec2Model ----
(***************************************************************************)
(* A model of rescape_graphene/graphql_helpers/schema_helpers.py: the      *)
(* derivation of GraphQL input fields and filter arguments from a field    *)
(* configuration, the update_or_create parameter builder, the mutation     *)
(* builder and the conversion of filter kwargs to Django Q expressions.    *)
(*                                                                         *)
(* Encoding of Python values                                               *)
(*  - str: a TLA+ string; slicing is SubSeq, concatenation is \o.          *)
(*  - dict: a function whose DOMAIN is the set of keys; the insertion      *)
(*    order of a dict of fields is the order of FieldOrder.                *)
(*  - a field config: a record with one component per key the code reads;  *)
(*    a key that the Python dict does not have holds an "absent" marker.   *)
(*  - a crud setting: [present, list, flags]; 'deny' is the flag           *)
(*    <<"deny">> with list = FALSE, ['deny', 'unique'] has list = TRUE.    *)
(*  - a graphene type: [kind, name]; kind is "absent" (no such key),       *)
(*    "none" (None), "scalar" (a Scalar subclass), "object" (an ObjectType *)
(*    subclass), "lambda0" (a no-argument lambda that returns the          *)
(*    ObjectType of that name), "lambda1" (a function of the crud).        *)
(*  - a raised exception: a result whose ok component is FALSE.            *)
(***************************************************************************)
EXTENDS Integers, Sequences, FiniteSets, TLC

VARIABLES call, ret, cache, TESTING

vars == <<call, ret, cache, TESTING>>

(***************************************************************************)
(* Bounds                                                                  *)
(***************************************************************************)
\* the fields a fields_dict can have are the first MaxFields names of FieldOrder
MaxFields == 2
\* the longest path of field names in the key of a query kwarg, and the
\* deepest nesting of the dict that queries a related model
MaxDepth == 2
\* the longest list of Q expression sets that is queried sequentially
MaxSets == 3
\* the most variables a query is given
MaxVariables == 2

(***************************************************************************)
(* Python str operations                                                   *)
(***************************************************************************)
Range(s) == {s[i] : i \in DOMAIN s}

\* s[i:].startswith(sub), i counted from 1
StartsWithAt(s, sub, i) ==
    /\ i + Len(sub) - 1 <= Len(s)
    /\ SubSeq(s, i, i + Len(sub) - 1) = sub

\* sub in s
StrContains(sub, s) == \E i \in 1..(Len(s) - Len(sub) + 1) : StartsWithAt(s, sub, i)

\* s.endswith(suf)
EndsWith(s, suf) ==
    /\ Len(suf) <= Len(s)
    /\ SubSeq(s, Len(s) - Len(suf) + 1, Len(s)) = suf

\* s.replace(old, new): every non-overlapping occurrence, leftmost first
RECURSIVE StrReplace(_, _, _)
StrReplace(s, old, new) ==
    IF Len(s) = 0 THEN s
    ELSE IF StartsWithAt(s, old, 1)
         THEN new \o StrReplace(SubSeq(s, Len(old) + 1, Len(s)), old, new)
         ELSE SubSeq(s, 1, 1) \o StrReplace(SubSeq(s, 2, Len(s)), old, new)

(***************************************************************************)
(* Flags and crud names                                                    *)
(***************************************************************************)
DENY == "deny"
REQUIRE == "require"
UNIQUE == "unique"
IGNORE == "ignore"
PRIMARY == "primary"
ALLOW == "allow"

CREATE == "create"
READ == "read"
UPDATE == "update"
DELETE == "delete"

\* Python None where a crud is expected
None == "None"

Cruds == {CREATE, UPDATE, READ}

(***************************************************************************)
(* Crud settings of a field config                                         *)
(***************************************************************************)
NoSetting == [present |-> FALSE, list |-> FALSE, flags |-> <<>>]
Flag(f) == [present |-> TRUE, list |-> FALSE, flags |-> <<f>>]
FlagList(fs) == [present |-> TRUE, list |-> TRUE, flags |-> fs]

\* the setting is the plain value
SettingIs(setting, value) == ~setting.list /\ setting.flags = <<value>>
\* the setting is a list that contains the value
SettingHas(setting, value) == setting.list /\ value \in Range(setting.flags)

\* R.prop_eq_or(default, key, value, dct): dct[key] == value, default without the key
prop_eq_or(default, key, value, dct) ==
    IF dct[key].present THEN SettingIs(dct[key], value) ELSE default

\* R.prop_eq_or_in_or(default, key, value, dct): dct[key] == value or value in dct[key]
prop_eq_or_in_or(default, key, value, dct) ==
    IF dct[key].present
    THEN SettingIs(dct[key], value) \/ SettingHas(dct[key], value)
    ELSE default

\* R.prop_eq_or_in(key, value, dct)
prop_eq_or_in(key, value, dct) == prop_eq_or_in_or(FALSE, key, value, dct)

(***************************************************************************)
(* Graphene types                                                          *)
(***************************************************************************)
AbsentT == [kind |-> "absent", name |-> ""]
NoneT == [kind |-> "none", name |-> ""]
ScalarT(n) == [kind |-> "scalar", name |-> n]
ObjectT(n) == [kind |-> "object", name |-> n]
Lambda0T(n) == [kind |-> "lambda0", name |-> n]
Lambda1T(n) == [kind |-> "lambda1", name |-> n]

\* bool(t) for the value of a 'type' or 'graphene_type' key
Truthy(t) == t.kind \notin {"absent", "none"}

\* R.prop_or(default, key, dct) on the type keys: the default for a missing key or None
prop_or(default, key, dct) ==
    IF dct[key].kind \in {"absent", "none"} THEN default ELSE dct[key]

\* call_if_lambda on a type: a no-argument lambda is called
call_if_lambda(t) == IF t.kind = "lambda0" THEN ObjectT(t.name) ELSE t

NoModifier == ""
NoFields == [present |-> FALSE, dict |-> <<>>]
Fields(d) == [present |-> TRUE, dict |-> d]

\* a field config with none of its keys
EmptyConfig ==
    [type |-> AbsentT, graphene_type |-> AbsentT, type_modifier |-> NoModifier,
     fields |-> NoFields, create |-> NoSetting, update |-> NoSetting,
     read |-> NoSetting, unique |-> <<>>, django_type |-> FALSE]

(***************************************************************************)
(* Letter case                                                             *)
(***************************************************************************)
LowerChars == <<"a","b","c","d","e","f","g","h","i","j","k","l","m",
                "n","o","p","q","r","s","t","u","v","w","x","y","z">>
UpperChars == <<"A","B","C","D","E","F","G","H","I","J","K","L","M",
                "N","O","P","Q","R","S","T","U","V","W","X","Y","Z">>

\* c.upper() for a one-character string
Upper(c) ==
    IF \E i \in DOMAIN LowerChars : LowerChars[i] = c
    THEN UpperChars[CHOOSE i \in DOMAIN LowerChars : LowerChars[i] = c]
    ELSE c

\* c.lower() for a one-character string
Lower(c) ==
    IF \E i \in DOMAIN UpperChars : UpperChars[i] = c
    THEN LowerChars[CHOOSE i \in DOMAIN UpperChars : UpperChars[i] = c]
    ELSE c

\* re.sub(r"(?:^|_)(.)", lambda m: m.group(1).upper(), s), from position i on
RECURSIVE CamelizeFrom(_, _)
CamelizeFrom(s, i) ==
    IF i > Len(s) THEN ""
    ELSE IF i = 1 THEN Upper(SubSeq(s, 1, 1)) \o CamelizeFrom(s, 2)
    ELSE IF SubSeq(s, i, i) = "_" /\ i < Len(s)
         THEN Upper(SubSeq(s, i + 1, i + 1)) \o CamelizeFrom(s, i + 2)
         ELSE SubSeq(s, i, i) \o CamelizeFrom(s, i + 1)

\* inflection.camelize(s, uppercase_first_letter)
camelize(s, uppercase_first_letter) ==
    IF uppercase_first_letter THEN CamelizeFrom(s, 1)
    ELSE Lower(SubSeq(s, 1, 1)) \o SubSeq(CamelizeFrom(s, 1), 2, Len(CamelizeFrom(s, 1)))

\* capitalize_first_letter(str): str[:1].upper() + str[1:]
capitalize_first_letter(str) ==
    Upper(SubSeq(str, 1, 1)) \o SubSeq(str, 2, Len(str))

(***************************************************************************)
(* FILTER_FIELDS: the filter suffixes in the order of the dict, each with  *)
(* its allowed_types (restricted = the key is there) and type_modifier     *)
(***************************************************************************)
FAny(s) == [suffix |-> s, restricted |-> FALSE, allowed |-> {}, modifier |-> NoModifier]
FOnly(s, types) == [suffix |-> s, restricted |-> TRUE, allowed |-> types, modifier |-> NoModifier]
FList(s) == [suffix |-> s, restricted |-> FALSE, allowed |-> {}, modifier |-> "List"]

DateTypes == {"Date", "DateTime"}
OrderedTypes == {"Int", "Float", "DateTime", "Date"}
JsonTypes == {"JSONString", "InputObjectType"}

\* the dict the suffixes are built from: the short one when settings.TESTING
FilterBase(testing) ==
    IF testing
    THEN << FAny("contains"), FAny("icontains"), FList("in") >>
    ELSE << FOnly("year", DateTypes), FOnly("month", DateTypes), FOnly("day", DateTypes),
            FOnly("week_day", DateTypes), FOnly("hour", {"DateTime"}),
            FOnly("minute", {"DateTime"}), FOnly("second", {"DateTime"}),
            FAny("exact"), FAny("iexact"), FAny("contains"), FAny("icontains"),
            FList("in"),
            FOnly("gt", OrderedTypes), FOnly("gte", OrderedTypes),
            FOnly("lt", OrderedTypes), FOnly("lte", OrderedTypes),
            FOnly("startswith", {"String"}), FOnly("istartswith", {"String"}),
            FOnly("endswith", {"String"}), FOnly("iendswith", {"String"}),
            FList("range"), FAny("isnull"),
            FOnly("regex", {"String"}), FOnly("iregex", {"String"}),
            FOnly("search", {"String"}),
            FAny("contained_by"), FOnly("overlap", DateTypes),
            FOnly("has_key", JsonTypes), FOnly("has_keys", JsonTypes),
            FOnly("has_any_keys", JsonTypes),
            FOnly("trigram_similar", {"String"}) >>

\* R.chain(lambda key_value: [key_value, [key + '_not', value]], pairs)
RECURSIVE WithNot(_)
WithNot(pairs) ==
    IF pairs = <<>> THEN <<>>
    ELSE << Head(pairs), [Head(pairs) EXCEPT !.suffix = @ \o "_not"] >> \o WithNot(Tail(pairs))

FILTER_FIELDS == WithNot(FilterBase(TESTING))

\* R.keys(FILTER_FIELDS)
FilterSuffixes == {FILTER_FIELDS[i].suffix : i \in DOMAIN FILTER_FIELDS}

(***************************************************************************)
(* Results of the operations                                               *)
(***************************************************************************)
\* a returned value, with the memo of input_type_class after the call
OK(v, c) == [ok |-> TRUE, val |-> v, cache |-> c, err |-> "", nested |-> FALSE]
\* a raised exception; nested tells that it was raised while the input type
\* of an ObjectType was being built, and not by the call itself
Raise(c, err) == [ok |-> FALSE, val |-> <<>>, cache |-> c, err |-> err, nested |-> FALSE]

\* the exception of instantiate_graphene_type
NoTypeError == "No graphene_type nor type parameter found on the field value"
\* a key that a dict does not have
KeyError == "KeyError"
\* None has no __name__
AttributeError == "AttributeError"

\* a type as the class that gets instantiated
TypeR(t) == [kind |-> t.kind, name |-> t.name, crud |-> "", fields |-> <<>>]
\* graphene_type(crud) of a function of the crud
Applied(t, crud) == [kind |-> "applied", name |-> t.name, crud |-> crud, fields |-> <<>>]
\* type(name, (InputObjectType,), fields)
InputClass(name, crud, fields) == [kind |-> "input", name |-> name, crud |-> crud, fields |-> fields]
\* the dict input_type_class returns when allowed_fields_only
FieldsOnly(fields) == [kind |-> "dict", name |-> "", crud |-> "", fields |-> fields]

\* cls(required=required)
Instance(cls, required) ==
    [kind |-> "instance", of |-> cls, required_passed |-> TRUE,
     required |-> required, modifier |-> NoModifier]
\* cls()
Instantiated(cls) ==
    [kind |-> "instance", of |-> cls, required_passed |-> FALSE,
     required |-> FALSE, modifier |-> NoModifier]
\* type_modifier(cls)
Modified(modifier, cls) ==
    [kind |-> "modified", of |-> cls, required_passed |-> FALSE,
     required |-> FALSE, modifier |-> modifier]

\* issubclass(cls, typ) for typ one of the allowed_types
IsSubclass(cls, typ) ==
    \/ cls.name = typ
    \/ cls.kind = "input" /\ typ = "InputObjectType"

(***************************************************************************)
(* Dicts                                                                   *)
(***************************************************************************)
\* the names a fields_dict can have, in the order a dict lists them
FieldOrder == <<"id", "region", "name", "a_b">>

\* the keys of a dict of fields in insertion order
OrderOf(keys) == SelectSeq(FieldOrder, LAMBDA n : n \in keys)

\* R.merge(a, b): the entries of b win
Merge(a, b) == b @@ a

\* R.from_pairs(pairs)
RECURSIVE from_pairs(_)
from_pairs(pairs) ==
    IF pairs = <<>> THEN <<>>
    ELSE LET n == Len(pairs)
         IN (pairs[n][1] :> pairs[n][2]) @@ from_pairs(SubSeq(pairs, 1, n - 1))

\* R.join(sep, items)
RECURSIVE join(_, _)
join(sep, items) ==
    IF items = <<>> THEN ""
    ELSE IF Len(items) = 1 THEN items[1]
    ELSE items[1] \o sep \o join(sep, Tail(items))

(***************************************************************************)
(* Filter arguments of one field                                           *)
(***************************************************************************)
AllFilters(graphene_type) == FILTER_FIELDS

\* the entries of FILTER_FIELDS that allowed_filter_pairs keeps for the type
AllowedFilters(graphene_type) ==
    SelectSeq(FILTER_FIELDS,
              LAMBDA e : \/ ~e.restricted
                         \/ \E typ \in e.allowed : IsSubclass(graphene_type, typ))

allowed_filter_pairs(field_name, graphene_type) ==
    LET kept == AllowedFilters(graphene_type)
    IN [i \in DOMAIN kept |->
          << field_name \o "_" \o kept[i].suffix,
             IF kept[i].modifier # NoModifier
             THEN Modified(kept[i].modifier, graphene_type)
             ELSE Instantiated(graphene_type) >>]

\* pair = <<field name, instance>>
make_filters(pair) ==
    from_pairs(<<pair>> \o allowed_filter_pairs(pair[1], pair[2].of))

\* R.merge_all(R.map(make_filters, R.to_pairs(argument_dict)))
RECURSIVE MergeFilters(_, _)
MergeFilters(keys, argument_dict) ==
    IF keys = <<>> THEN <<>>
    ELSE LET n == Len(keys)
         IN Merge(MergeFilters(SubSeq(keys, 1, n - 1), argument_dict),
                  make_filters(<<keys[n], argument_dict[keys[n]]>>))

add_filters(argument_dict) == MergeFilters(OrderOf(DOMAIN argument_dict), argument_dict)

GuessByName(fields_dict) ==
    IF "name" \in DOMAIN fields_dict THEN UPDATE ELSE CREATE

guess_update_or_create(fields_dict) ==
    IF "id" \in DOMAIN fields_dict THEN UPDATE ELSE CREATE

(***************************************************************************)
(* The tests the type generation makes on one field config                 *)
(***************************************************************************)
\* input_type_fields keeps the field: its setting for the crud is not deny
InputFieldKept(crud, field_config) == ~prop_eq_or(FALSE, crud, DENY, field_config)

\* allowed_read_fields keeps the field
ReadFieldKept(field_config) == TRUE /\ ~prop_eq_or_in(READ, DENY, field_config)

FilterArgumentKeptUnlessEqual(field_config) ==
    TRUE /\ ~prop_eq_or(FALSE, READ, DENY, field_config)

\* allowed_filter_arguments keeps the field
FilterArgumentKept(field_config) == TRUE /\ ~prop_eq_or_in(READ, DENY, field_config)

SelectFirstType(field_config) ==
    prop_or(prop_or(NoneT, "graphene_type", field_config), "type", field_config)

\* the graphene_type of the config, its type without one
SelectGrapheneType(field_config) ==
    prop_or(prop_or(NoneT, "type", field_config), "graphene_type", field_config)

RequiredOnlyIfEqual(field_config, crud) == prop_eq_or(FALSE, crud, REQUIRE, field_config)

\* the required flag the type is instantiated with
RequiredFlag(field_config, crud) == prop_eq_or_in_or(FALSE, crud, REQUIRE, field_config)

(***************************************************************************)
(* Type generation.  Every operation takes the memo of input_type_class    *)
(* and returns it with its result: OK(value, memo) or Raise(memo).         *)
(***************************************************************************)
RECURSIVE input_type_class(_, _, _, _, _)
RECURSIVE input_type_class_body(_, _, _, _, _)
RECURSIVE CombineWithFilterFields(_, _, _, _, _, _)
RECURSIVE instantiate_graphene_type(_, _, _, _)
RECURSIVE MapInstantiate(_, _, _, _, _)
RECURSIVE input_type_fields(_, _, _, _)
RECURSIVE resolve_type(_, _, _)
RECURSIVE MapResolve(_, _, _, _)
RECURSIVE allowed_filter_arguments(_, _, _)

\* the key _memoize makes of the arguments; an allowed_fields_only that is
\* not passed counts as False
MemoKey(field_config, crud, parent_type_classes, allowed_fields_only) ==
    << field_config.graphene_type.kind, field_config.graphene_type.name,
       crud, parent_type_classes, allowed_fields_only >>

\* what the memoizer does with the result r of the body: a value is stored
\* under the key, an exception passes through
Memoized(key, r) ==
    IF r.ok THEN OK(r.val, (key :> r.val) @@ r.cache)
    ELSE [r EXCEPT !.nested = TRUE]

\* the decorated input_type_class: the body runs on a key the memo lacks
input_type_class(field_config, crud, parent_type_classes, allowed_fields_only, c) ==
    IF field_config.graphene_type.kind = "absent" THEN Raise(c, KeyError)
    ELSE IF MemoKey(field_config, crud, parent_type_classes, allowed_fields_only) \in DOMAIN c
    THEN OK(c[MemoKey(field_config, crud, parent_type_classes, allowed_fields_only)], c)
    ELSE Memoized(MemoKey(field_config, crud, parent_type_classes, allowed_fields_only),
                  input_type_class_body(field_config, crud, parent_type_classes,
                                        allowed_fields_only, c))

\* field_config['graphene_type'] or field_config['type']
PickedType(field_config) ==
    IF Truthy(field_config.graphene_type)
    THEN field_config.graphene_type ELSE field_config.type

\* the class (or the fields alone) made of the filter fields and the input
\* fields; filter_fields is a result, input_fields a dict
CombinedClass(graphene_class, crud, parent_type_classes, allowed_fields_only, input_fields, filter_fields) ==
    IF ~filter_fields.ok THEN filter_fields
    ELSE IF allowed_fields_only
    THEN OK(FieldsOnly(Merge(filter_fields.val, input_fields)), filter_fields.cache)
    ELSE IF graphene_class.kind = "none" THEN Raise(filter_fields.cache, AttributeError)
    ELSE OK(InputClass(graphene_class.name
                         \o join("of", <<"">> \o parent_type_classes)
                         \o "Related" \o camelize(crud, TRUE) \o "InputType",
                       crud, Merge(filter_fields.val, input_fields)),
            filter_fields.cache)

\* the rest of the body once the input fields are made: the filter fields
\* of a read, merged with the input fields
CombineWithFilterFields(input_type_field_configs, graphene_class, crud, parent_type_classes, allowed_fields_only, input_fields) ==
    IF ~input_fields.ok THEN input_fields
    ELSE CombinedClass(graphene_class, crud, parent_type_classes, allowed_fields_only,
                       input_fields.val,
                       IF crud = READ
                       THEN allowed_filter_arguments(input_type_field_configs,
                                                     graphene_class, input_fields.cache)
                       ELSE OK(<<>>, input_fields.cache))

\* no graphene type of the model has a Django model: the field configs are
\* the 'fields' as given
input_type_class_body(field_config, crud, parent_type_classes, allowed_fields_only, c) ==
    IF PickedType(field_config).kind = "absent" \/ ~field_config.fields.present
    THEN Raise(c, KeyError)
    ELSE CombineWithFilterFields(
             field_config.fields.dict, call_if_lambda(PickedType(field_config)), crud,
             parent_type_classes, allowed_fields_only,
             input_type_fields(field_config.fields.dict, crud,
                               <<call_if_lambda(PickedType(field_config)).name>>
                                   \o parent_type_classes, c))

\* the instance made of the resolved type: the modifier's, or the type's own
\* with its required flag
InstanceOf(field_config, crud, resolved) ==
    IF ~resolved.ok THEN resolved
    ELSE IF field_config.type_modifier # NoModifier
    THEN OK(Modified(field_config.type_modifier, resolved.val), resolved.cache)
    ELSE OK(Instance(resolved.val, RequiredFlag(field_config, crud)), resolved.cache)

instantiate_graphene_type(field_config, parent_type_classes, crud, c) ==
    IF ~Truthy(SelectGrapheneType(field_config)) THEN Raise(c, NoTypeError)
    ELSE InstanceOf(field_config, crud,
             IF SelectGrapheneType(field_config).kind \in {"object", "lambda0"}
             THEN IF ~field_config.fields.present THEN Raise(c, KeyError)
                  ELSE input_type_class(
                           [EmptyConfig EXCEPT
                               !.graphene_type = call_if_lambda(SelectGrapheneType(field_config)),
                               !.fields = field_config.fields],
                           crud, parent_type_classes, FALSE, c)
             ELSE IF SelectGrapheneType(field_config).kind = "lambda1"
             THEN OK(Applied(SelectGrapheneType(field_config), crud), c)
             ELSE OK(TypeR(SelectGrapheneType(field_config)), c))

\* the dict acc with the value of r under the key, or the exception of r
PutResult(key, acc, r) ==
    IF r.ok THEN OK((key :> r.val) @@ acc.val, r.cache) ELSE r

\* R.map_dict over the kept fields, in the order of the dict; acc is the
\* result so far
MapInstantiate(keys, fields_dict, parent_type_classes, crud, acc) ==
    IF keys = <<>> \/ ~acc.ok THEN acc
    ELSE MapInstantiate(Tail(keys), fields_dict, parent_type_classes, crud,
             PutResult(Head(keys), acc,
                       instantiate_graphene_type(fields_dict[Head(keys)],
                                                 parent_type_classes, crud, acc.cache)))

\* crud or guess_update_or_create(fields_dict)
CrudOrGuess(crud, fields_dict) ==
    IF crud # None THEN crud ELSE guess_update_or_create(fields_dict)

input_type_fields(fields_dict, crud, parent_type_classes, c) ==
    MapInstantiate(
        OrderOf({k \in DOMAIN fields_dict :
                    InputFieldKept(CrudOrGuess(crud, fields_dict), fields_dict[k])}),
        fields_dict, parent_type_classes, CrudOrGuess(crud, fields_dict), OK(<<>>, c))

\* the instance of the class that input_type_class returned
InstantiatedResult(r) ==
    IF r.ok THEN OK(Instantiated(r.val), r.cache) ELSE r

resolve_type(graphene_type, field_config, c) ==
    IF field_config.type.kind = "absent" THEN Raise(c, KeyError)
    ELSE IF field_config.type.kind = "scalar"
    THEN OK(Instantiated(TypeR(field_config.type)), c)
    ELSE InstantiatedResult(
             input_type_class(field_config, READ, <<graphene_type.name>>, FALSE, c))

\* R.map_dict(resolve_type(graphene_type)) over the kept fields
MapResolve(keys, fields_dict, graphene_type, acc) ==
    IF keys = <<>> \/ ~acc.ok THEN acc
    ELSE MapResolve(Tail(keys), fields_dict, graphene_type,
             PutResult(Head(keys), acc,
                       resolve_type(graphene_type, fields_dict[Head(keys)], acc.cache)))

allowed_read_fields(fields_dict, graphene_type, c) ==
    MapResolve(OrderOf({k \in DOMAIN fields_dict : ReadFieldKept(fields_dict[k])}),
               fields_dict, graphene_type, OK(<<>>, c))

\* add_filters on the resolved fields
WithFilters(resolved) ==
    IF ~resolved.ok THEN resolved
    ELSE OK(add_filters(resolved.val), resolved.cache)

allowed_filter_arguments(fields_dict, graphene_type, c) ==
    WithFilters(
        MapResolve(OrderOf({k \in DOMAIN fields_dict : FilterArgumentKept(fields_dict[k])}),
                   fields_dict, graphene_type, OK(<<>>, c)))

(***************************************************************************)
(* The inputs of the type generation                                       *)
(***************************************************************************)
\* the fields of a nested ObjectType: an id and a name; a field that was
\* given no type
NestedIdName ==
    ("id" :> [EmptyConfig EXCEPT !.type = ScalarT("Int"), !.create = Flag(DENY)])
    @@ ("name" :> [EmptyConfig EXCEPT !.type = ScalarT("String"), !.read = Flag(DENY)])
NestedUntyped == ("name" :> EmptyConfig)

TypeOptions ==
    {AbsentT, NoneT, ScalarT("String"), ObjectT("FooType"), Lambda1T("related_input_field")}
GrapheneTypeOptions ==
    {AbsentT, NoneT, ScalarT("Int"), ObjectT("FooType"), Lambda0T("FooType")}
ModifierOptions == {NoModifier, "List"}

\* a type whose input type is built from the 'fields' of the config
NeedsFields(t) == t.kind \in {"object", "lambda0"}
FieldsOptions(t, g) ==
    IF NeedsFields(g) \/ (~Truthy(g) /\ NeedsFields(t))
    THEN {NoFields, Fields(NestedIdName), Fields(NestedUntyped)}
    ELSE {NoFields}

SettingOptions ==
    {NoSetting, Flag(ALLOW), Flag(DENY), Flag(REQUIRE), FlagList(<<DENY>>),
     FlagList(<<REQUIRE, UNIQUE>>), FlagList(<<ALLOW, DENY>>)}
\* the settings of the fields of a fields_dict
DictSettingOptions ==
    {NoSetting, Flag(DENY), Flag(REQUIRE), FlagList(<<DENY>>), FlagList(<<REQUIRE, UNIQUE>>)}

\* the crud keys a setting is put under for a call with the given crud
SettingKeys(crud) ==
    IF crud = None THEN {CREATE, UPDATE}
    ELSE IF crud = READ THEN {READ, CREATE} ELSE {crud, READ}

FieldNames == {FieldOrder[i] : i \in 1..MaxFields}

\* the type keys each field has when it is typed
TypedConfig(name) ==
    CASE name = "id" -> [EmptyConfig EXCEPT !.type = ScalarT("Int")]
      [] name = "region" -> [EmptyConfig EXCEPT !.type = ObjectT("FooType"),
                                                !.graphene_type = ObjectT("FooType"),
                                                !.fields = Fields(NestedIdName)]
      [] name = "name" -> [EmptyConfig EXCEPT !.type = ScalarT("String")]
      [] OTHER -> [EmptyConfig EXCEPT !.type = ScalarT("DateTime")]

\* the configs of one field: typed or not, with a setting under the key
ConfigsOf(name, key) ==
    {[base EXCEPT ![key] = st] : base \in {TypedConfig(name), EmptyConfig}, st \in DictSettingOptions}

\* the fields_dicts over the first k names, their settings under the key
RECURSIVE DictsOver(_, _)
DictsOver(k, key) ==
    IF k = 0 THEN {<<>>}
    ELSE LET rest == DictsOver(k - 1, key)
         IN rest \cup {(FieldOrder[k] :> cfg) @@ d :
                          cfg \in ConfigsOf(FieldOrder[k], key), d \in rest}

FieldsDicts(key) == DictsOver(MaxFields, key)

(***************************************************************************)
(* The caller: one call at a time, then its return                         *)
(***************************************************************************)
Idle == [op |-> "idle"]
NoRet == [ok |-> TRUE, val |-> <<>>, err |-> "", nested |-> FALSE]
Returned(r) == [ok |-> r.ok, val |-> r.val, err |-> r.err, nested |-> r.nested]

\* nothing is memoized yet; the production settings
InitTypes ==
    /\ call = Idle
    /\ ret = NoRet
    /\ cache = <<>>
    /\ TESTING = FALSE

\* the caller takes the result and is ready for the next call
Return ==
    /\ call.op # "idle"
    /\ call' = Idle
    /\ ret' = NoRet
    /\ UNCHANGED <<cache, TESTING>>

CallInstantiateGrapheneType ==
    /\ call.op = "idle"
    /\ \E t \in TypeOptions, g \in GrapheneTypeOptions, m \in ModifierOptions,
          st \in SettingOptions, crud \in Cruds :
         \E f \in FieldsOptions(t, g), key \in SettingKeys(crud) :
            LET field_config == [EmptyConfig EXCEPT !.type = t, !.graphene_type = g,
                                     !.type_modifier = m, !.fields = f, ![key] = st]
                r == instantiate_graphene_type(field_config, <<>>, crud, cache)
            IN /\ call' = [op |-> "instantiate_graphene_type", field_config |-> field_config,
                           parent_type_classes |-> <<>>, crud |-> crud]
               /\ ret' = Returned(r)
               /\ cache' = r.cache
    /\ UNCHANGED TESTING

CallInputTypeFields ==
    /\ call.op = "idle"
    /\ \E crud \in Cruds \cup {None} :
         \E key \in SettingKeys(crud) : \E fields_dict \in FieldsDicts(key) :
            LET r == input_type_fields(fields_dict, crud, <<>>, cache)
            IN /\ call' = [op |-> "input_type_fields", fields_dict |-> fields_dict,
                           crud |-> crud, parent_type_classes |-> <<>>]
               /\ ret' = Returned(r)
               /\ cache' = r.cache
    /\ UNCHANGED TESTING

CallAllowedReadFields ==
    /\ call.op = "idle"
    /\ \E key \in SettingKeys(READ) :
         \E fields_dict \in FieldsDicts(key) :
            LET r == allowed_read_fields(fields_dict, ObjectT("RootType"), cache)
            IN /\ call' = [op |-> "allowed_read_fields", fields_dict |-> fields_dict,
                           graphene_type |-> ObjectT("RootType")]
               /\ ret' = Returned(r)
               /\ cache' = r.cache
    /\ UNCHANGED TESTING

CallAllowedFilterArguments ==
    /\ call.op = "idle"
    /\ \E key \in SettingKeys(READ) :
         \E fields_dict \in FieldsDicts(key) :
            LET r == allowed_filter_arguments(fields_dict, ObjectT("RootType"), cache)
            IN /\ call' = [op |-> "allowed_filter_arguments", fields_dict |-> fields_dict,
                           graphene_type |-> ObjectT("RootType")]
               /\ ret' = Returned(r)
               /\ cache' = r.cache
    /\ UNCHANGED TESTING

\* the generation of input fields and filter arguments
NextTypes ==
    \/ CallInstantiateGrapheneType
    \/ CallInputTypeFields
    \/ CallAllowedReadFields
    \/ CallAllowedFilterArguments
    \/ Return

SpecTypes == InitTypes /\ [][NextTypes]_vars

(***************************************************************************)
(* Calls of input_type_class itself, one after another in one process      *)
(***************************************************************************)
\* top_level_allowed_filter_arguments(fields, graphene_type)
top_level_allowed_filter_arguments(fields, graphene_type, c) ==
    input_type_class([EmptyConfig EXCEPT !.fields = Fields(fields),
                                         !.graphene_type = graphene_type],
                     READ, <<>>, TRUE, c)

\* the 'fields' that a field_config gives for the same graphene_type
NestedIdOnly == "id" :> [EmptyConfig EXCEPT !.type = ScalarT("Int")]
MemoFieldsOptions == {NestedIdName, NestedIdOnly, NestedUntyped}

CallInputTypeClass ==
    /\ call.op = "idle"
    /\ \E fields \in MemoFieldsOptions, crud \in Cruds, allowed_fields_only \in BOOLEAN :
          LET field_config == [EmptyConfig EXCEPT !.graphene_type = ObjectT("FooType"),
                                                  !.fields = Fields(fields)]
              r == input_type_class(field_config, crud, <<>>, allowed_fields_only, cache)
          IN /\ call' = [op |-> "input_type_class", field_config |-> field_config,
                         crud |-> crud, parent_type_classes |-> <<>>,
                         allowed_fields_only |-> allowed_fields_only]
             /\ ret' = Returned(r)
             /\ cache' = r.cache
    /\ UNCHANGED TESTING

CallTopLevelAllowedFilterArguments ==
    /\ call.op = "idle"
    /\ \E fields \in MemoFieldsOptions :
          LET r == top_level_allowed_filter_arguments(fields, ObjectT("FooType"), cache)
          IN /\ call' = [op |-> "top_level_allowed_filter_arguments", fields |-> fields,
                         graphene_type |-> ObjectT("FooType")]
             /\ ret' = Returned(r)
             /\ cache' = r.cache
    /\ UNCHANGED TESTING

NextMemo ==
    \/ CallInputTypeClass
    \/ CallTopLevelAllowedFilterArguments
    \/ Return

SpecMemo == InitTypes /\ [][NextMemo]_vars

(***************************************************************************)
(* The parameters of update_or_create.  A value is a scalar v, or the dict *)
(* {id: v} of a related object: [is_dict, v].                              *)
(***************************************************************************)
Scalar(v) == [is_dict |-> FALSE, v |-> v]
Related(v) == [is_dict |-> TRUE, v |-> v]

\* the names the values of a mutation can have besides id, in dict order
ValueOrder == <<"key", "name", "region", "code">>
OrderOfValues(keys) == SelectSeq(<<"id">> \o ValueOrder, LAMBDA n : n \in keys)

\* related_object_id_if_django_type(fields_dict, key, value)
related_object_id_if_django_type(fields_dict, key, value) ==
    IF key \notin DOMAIN fields_dict THEN Raise(<<>>, KeyError)
    ELSE IF fields_dict[key].django_type
         THEN IF value.is_dict THEN OK((key \o "_id") :> Scalar(value.v), <<>>)
              ELSE Raise(<<>>, AttributeError)
         ELSE OK(key :> value, <<>>)

\* R.omit(['id'], field_name_to_value)
OmitId(field_name_to_value) ==
    [k \in DOMAIN field_name_to_value \ {"id"} |-> field_name_to_value[k]]

\* R.map_with_obj(_related_object_id_if_django_type, R.omit(['id'], field_name_to_value))
KeyToModifiedKeyAndValue(fields_dict, field_name_to_value) ==
    LET others == OmitId(field_name_to_value)
        each == [k \in DOMAIN others |->
                    related_object_id_if_django_type(fields_dict, k, others[k])]
    IN IF \E k \in DOMAIN each : ~each[k].ok
       THEN Raise(<<>>, each[CHOOSE k \in DOMAIN each :
                               /\ ~each[k].ok
                               /\ \A j \in DOMAIN each :
                                     ~each[j].ok => OrderOfValues({k, j})[1] = k].err)
       ELSE OK([k \in DOMAIN each |-> each[k].val], <<>>)

\* R.merge_all(dicts): the later dicts win
RECURSIVE merge_all(_)
merge_all(dicts) ==
    IF dicts = <<>> THEN <<>>
    ELSE LET n == Len(dicts) IN Merge(merge_all(SubSeq(dicts, 1, n - 1)), dicts[n])

\* the deep merge of two dicts made by key_value_based_on_unique_or_foreign:
\* the dicts under 'defaults' are merged, every other key is taken over
merge_deep(a, b) ==
    IF "defaults" \in DOMAIN a /\ "defaults" \in DOMAIN b
    THEN ("defaults" :> Merge(a["defaults"], b["defaults"])) @@ Merge(a, b)
    ELSE Merge(a, b)

\* R.merge_deep_all(dicts)
RECURSIVE merge_deep_all(_)
merge_deep_all(dicts) ==
    IF dicts = <<>> THEN <<>>
    ELSE LET n == Len(dicts) IN merge_deep(merge_deep_all(SubSeq(dicts, 1, n - 1)), dicts[n])

\* R.contains('unique', R.item_path_or([None], [key, 'unique'], fields_dict))
IsUnique(fields_dict, key) ==
    /\ key \in DOMAIN fields_dict
    /\ UNIQUE \in Range(fields_dict[key].unique)

key_value_based_on_unique_or_foreign(key_to_modified_key_and_value, fields_dict, key) ==
    LET modified_key_value == key_to_modified_key_and_value[key]
    IN IF IsUnique(fields_dict, key) THEN modified_key_value
       ELSE "defaults" :> modified_key_value

KeepDefaults(to_insert) == OK(to_insert, <<>>)

\* R.when(R.compose(R.equals(1), R.length, R.keys), R.prop('defaults'))(to_insert)
WhenOneKeyTakeDefaults(to_insert) ==
    IF Cardinality(DOMAIN to_insert) = 1
    THEN IF "defaults" \in DOMAIN to_insert THEN OK(to_insert["defaults"], <<>>)
         ELSE Raise(<<>>, KeyError)
    ELSE OK(to_insert, <<>>)

IdAlsoInDefaults(field_name_to_value, modified) ==
    LET keys == OrderOfValues(DOMAIN modified)
    IN ("id" :> field_name_to_value["id"])
         @@ ("defaults" :> Merge(merge_all([i \in DOMAIN keys |-> modified[keys[i]]]),
                                 "id" :> field_name_to_value["id"]))

\* dict(id=R.getitem('id', field_name_to_value), defaults=R.merge_all(R.values(modified)))
IdAndDefaults(field_name_to_value, modified) ==
    LET keys == OrderOfValues(DOMAIN modified)
    IN ("id" :> field_name_to_value["id"])
         @@ ("defaults" :> merge_all([i \in DOMAIN keys |-> modified[keys[i]]]))

input_type_parameters_for_update_or_create(fields_dict, field_name_to_value) ==
    LET key_to_modified_key_and_value ==
            KeyToModifiedKeyAndValue(fields_dict, field_name_to_value)
    IN IF ~key_to_modified_key_and_value.ok THEN key_to_modified_key_and_value
       ELSE
       LET modified == key_to_modified_key_and_value.val
           keys == OrderOfValues(DOMAIN modified)
       IN IF "id" \in DOMAIN field_name_to_value
          THEN OK(IdAndDefaults(field_name_to_value, modified), <<>>)
          ELSE WhenOneKeyTakeDefaults(
                   merge_deep_all(
                       [i \in DOMAIN keys |->
                           key_value_based_on_unique_or_foreign(modified, fields_dict, keys[i])]))

(***************************************************************************)
(* The mutation of graphql_update_or_create: the parts the template is     *)
(* filled with, and the variables handed to client.execute                 *)
(***************************************************************************)
\* camelize_graphql_data_object(dict(data=values)): the keys in camel case
CamelizedData(values) ==
    LET keys == {camelize(k, FALSE) : k \in DOMAIN values}
    IN [data |-> [c \in keys |-> values[CHOOSE k \in DOMAIN values : camelize(k, FALSE) = c]]]

graphql_update_or_create(mutation_config, fields, values) ==
    LET update_or_create == guess_update_or_create(values)
        name == camelize(mutation_config.class_name, FALSE)
        mutation ==
            [operation |-> name \o "Mutation",
             variable_type |->
                 capitalize_first_letter(mutation_config.crud[update_or_create]) \o "InputType",
             field |-> mutation_config.crud[update_or_create],
             argument |-> name \o "Data",
             result |-> name,
             selection |-> {"id"} \cup DOMAIN fields,
             header |-> "mutation " \o name \o "Mutation($data: "
                        \o capitalize_first_letter(mutation_config.crud[update_or_create])
                        \o "InputType!) { "
                        \o mutation_config.crud[update_or_create]
                        \o "(" \o name \o "Data: $data)"]
    IN OK([mutation |-> mutation, variables |-> CamelizedData(values)], <<>>)

(***************************************************************************)
(* The inputs of the mutations                                             *)
(***************************************************************************)
ValueNames == {ValueOrder[i] : i \in 1..MaxFields}
ValueOptions == {Scalar(1), Scalar(2), Related(1)}
IdOptions == {Scalar(1), Scalar(2)}

\* the values over the first k names
RECURSIVE ValuesOver(_)
ValuesOver(k) ==
    IF k = 0 THEN {<<>>} \cup {"id" :> v : v \in IdOptions}
    ELSE LET rest == ValuesOver(k - 1)
         IN rest \cup {(ValueOrder[k] :> v) @@ d : v \in ValueOptions, d \in rest}

MutationValues == ValuesOver(MaxFields)

\* the configs of a field of a model: unique or not, a related object or not
ModelConfigs ==
    {[EmptyConfig EXCEPT !.unique = u, !.django_type = d] :
        u \in {<<>>, <<UNIQUE>>}, d \in BOOLEAN}

\* the fields_dicts of a model over the first k names
RECURSIVE ModelsOver(_)
ModelsOver(k) ==
    IF k = 0 THEN {<<>>, "id" :> [EmptyConfig EXCEPT !.unique = <<PRIMARY>>]}
    ELSE LET rest == ModelsOver(k - 1)
         IN rest \cup {(ValueOrder[k] :> cfg) @@ d : cfg \in ModelConfigs, d \in rest}

ModelFieldsDicts == ModelsOver(MaxFields)

MutationConfigs ==
    {[class_name |-> "foo", crud |-> [create |-> "createFoo", update |-> "updateFoo"]],
     [class_name |-> "data_point",
      crud |-> [create |-> "create_data_point", update |-> "update_data_point"]]}

(***************************************************************************)
(* The calls of the mutation helpers                                       *)
(***************************************************************************)
\* nothing is called yet; these helpers leave the memo alone
InitMutation ==
    /\ call = Idle
    /\ ret = NoRet
    /\ cache = <<>>
    /\ TESTING = FALSE

CallGuessUpdateOrCreate ==
    /\ call.op = "idle"
    /\ \E fields_dict \in MutationValues :
          /\ call' = [op |-> "guess_update_or_create", fields_dict |-> fields_dict]
          /\ ret' = [NoRet EXCEPT !.val = guess_update_or_create(fields_dict)]
    /\ UNCHANGED <<cache, TESTING>>

CallGraphqlUpdateOrCreate ==
    /\ call.op = "idle"
    /\ \E mutation_config \in MutationConfigs, values \in MutationValues,
          names \in SUBSET ValueNames :
          /\ call' = [op |-> "graphql_update_or_create", mutation_config |-> mutation_config,
                      fields |-> [n \in names |-> EmptyConfig], values |-> values]
          /\ ret' = Returned(graphql_update_or_create(mutation_config,
                                 [n \in names |-> EmptyConfig], values))
    /\ UNCHANGED <<cache, TESTING>>

CallInputTypeParametersForUpdateOrCreate ==
    /\ call.op = "idle"
    /\ \E fields_dict \in ModelFieldsDicts, field_name_to_value \in MutationValues :
          /\ call' = [op |-> "input_type_parameters_for_update_or_create",
                      fields_dict |-> fields_dict,
                      field_name_to_value |-> field_name_to_value]
          /\ ret' = Returned(input_type_parameters_for_update_or_create(
                                 fields_dict, field_name_to_value))
    /\ UNCHANGED <<cache, TESTING>>

NextMutation ==
    \/ CallGuessUpdateOrCreate
    \/ CallGraphqlUpdateOrCreate
    \/ CallInputTypeParametersForUpdateOrCreate
    \/ Return

SpecMutation == InitMutation /\ [][NextMutation]_vars

(***************************************************************************)
(* Filter kwargs and Q expressions.  A query value is a scalar v, a dict   *)
(* of values or a list of values: [kind, v, items].  A Q expression is     *)
(* [negated, key, value]: Q(key=value), or ~Q(key=value) when negated.     *)
(***************************************************************************)
ScalarValue(v) == [kind |-> "scalar", v |-> v, items |-> <<>>]
DictValue(d) == [kind |-> "dict", v |-> 0, items |-> d]
ListValue(l) == [kind |-> "list", v |-> 0, items |-> l]

Q(key, value) == [negated |-> FALSE, key |-> key, value |-> value]
NotQ(key, value) == [negated |-> TRUE, key |-> key, value |-> value]

\* key.split('__')
RECURSIVE SplitFrom(_, _, _)
SplitFrom(key, i, start) ==
    IF i > Len(key) THEN <<SubSeq(key, start, Len(key))>>
    ELSE IF StartsWithAt(key, "__", i)
         THEN <<SubSeq(key, start, i - 1)>> \o SplitFrom(key, i + 2, i + 2)
         ELSE SplitFrom(key, i + 1, start)

Split(key) == SplitFrom(key, 1, 1)

\* the keys of the dicts of a query, in the order the dicts list them
QueryKeyOrder ==
    <<"id", "id__not", "name", "notes", "a_b", "user_input", "user", "group", "data">>
OrderOfQuery(keys) ==
    SelectSeq(QueryKeyOrder, LAMBDA n : n \in keys)

\* model._meta._forward_fields_map of the models: the kind of each field and
\* the related model of a relation
ForwardFields(model) ==
    CASE model = "Location" ->
            [id |-> [kind |-> "scalar", related_model |-> ""],
             name |-> [kind |-> "scalar", related_model |-> ""],
             notes |-> [kind |-> "scalar", related_model |-> ""],
             a_b |-> [kind |-> "scalar", related_model |-> ""],
             user_input |-> [kind |-> "scalar", related_model |-> ""],
             user |-> [kind |-> "ForeignKey", related_model |-> "User"],
             data |-> [kind |-> "JSONField", related_model |-> ""]]
      [] model = "User" ->
            [id |-> [kind |-> "scalar", related_model |-> ""],
             notes |-> [kind |-> "scalar", related_model |-> ""],
             group |-> [kind |-> "ForeignKey", related_model |-> "Group"]]
      [] model = "Group" ->
            [id |-> [kind |-> "scalar", related_model |-> ""],
             name |-> [kind |-> "scalar", related_model |-> ""],
             user |-> [kind |-> "OneToOneField", related_model |-> "User"]]
      [] OTHER ->
            [id |-> [kind |-> "scalar", related_model |-> ""],
             name |-> [kind |-> "scalar", related_model |-> ""]]

\* the names of model._meta.related_objects
RelatedObjects(model) == IF model = "Location" THEN {"visits"} ELSE {}

TypeError == "TypeError"

\* R.chain(R.identity, lists) of results: the first exception, or all the
\* Q expressions in order
RECURSIVE Chain(_)
Chain(results) ==
    IF results = <<>> THEN OK(<<>>, <<>>)
    ELSE IF ~Head(results).ok THEN Head(results)
    ELSE LET rest == Chain(Tail(results))
         IN IF ~rest.ok THEN rest ELSE OK(Head(results).val \o rest.val, <<>>)

\* _key_matches_filter_field(key)
key_matches_filter_field(key) ==
    LET parts == Split(key) IN parts[Len(parts)] \in FilterSuffixes

\* flatten_dct_until(dct, _flatten_until, '__') of {key: value}: the pairs of
\* the leaves, a list being a leaf
RECURSIVE FlattenDct(_, _)
FlattenDct(key, value) ==
    IF value.kind = "dict" /\ DOMAIN value.items # {}
    THEN LET keys == OrderOfQuery(DOMAIN value.items)
             RECURSIVE Each(_)
             Each(i) == IF i > Len(keys) THEN <<>>
                        ELSE FlattenDct(key \o "__" \o keys[i], value.items[keys[i]])
                               \o Each(i + 1)
         IN Each(1)
    ELSE << <<key, value>> >>

\* the Q expressions of a kwarg on a JSONField
JsonQExpressions(key, value) ==
    LET pairs == FlattenDct(key, value)
    IN [i \in DOMAIN pairs |->
          Q(IF pairs[i][2].kind \in {"dict", "list"} /\ ~key_matches_filter_field(pairs[i][1])
            THEN join("__", <<pairs[i][1], "contains">>)
            ELSE pairs[i][1],
            pairs[i][2])]

\* k = key.replace('__not', '')
RemoveNot(key) == StrReplace(key, "__not", "")

\* to_array_if_not(value)
to_array_if_not(value) == IF value.kind = "list" THEN value.items ELSE <<value>>

RECURSIVE process_query_kwarg(_, _, _)
RECURSIVE process_query_value(_, _)

process_query_value(model, value_dict) ==
    IF value_dict.kind # "dict" THEN Raise(<<>>, TypeError)
    ELSE LET keys == OrderOfQuery(DOMAIN value_dict.items)
         IN Chain([i \in DOMAIN keys |->
                     process_query_kwarg(model, keys[i], value_dict.items[keys[i]])])

process_query_kwarg(model, key, value) ==
    IF EndsWith(key, "__not")
    THEN OK(<<NotQ(RemoveNot(key), value)>>, <<>>)
    ELSE IF key \in DOMAIN ForwardFields(model) /\ ForwardFields(model)[key].kind = "JSONField"
    THEN OK(JsonQExpressions(key, value), <<>>)
    ELSE IF key \in DOMAIN ForwardFields(model)
              /\ ForwardFields(model)[key].kind \in {"ForeignKey", "OneToOneField", "ManyToManyField"}
    THEN LET related_model == ForwardFields(model)[key].related_model
             values == to_array_if_not(value)
             q_expressions == Chain([i \in DOMAIN values |->
                                       process_query_value(related_model, values[i])])
         IN IF ~q_expressions.ok THEN q_expressions
            \* Q(**{key__child: value}) of children[0] of each: not negated
            ELSE OK([i \in DOMAIN q_expressions.val |->
                       Q(key \o "__" \o q_expressions.val[i].key, q_expressions.val[i].value)],
                    <<>>)
    ELSE IF key \notin DOMAIN ForwardFields(model) /\ Split(key)[1] \in RelatedObjects(model)
    THEN IF value.kind # "list" \/ \E i \in DOMAIN value.items :
                                      \/ value.items[i].kind # "dict"
                                      \/ "id" \notin DOMAIN value.items[i].items
         THEN Raise(<<>>, TypeError)
         ELSE OK(<<Q(key, ListValue([i \in DOMAIN value.items |-> value.items[i].items["id"]]))>>,
                 <<>>)
    ELSE OK(<<Q(key, value)>>, <<>>)

\* flatten_query_kwargs(model, kwargs)
flatten_query_kwargs(model, kwargs, order) ==
    Chain([i \in DOMAIN order |-> process_query_kwarg(model, order[i], kwargs[order[i]])])

\* k.replace('_', '__')
DoubleUnderscores(k) == StrReplace(k, "_", "__")

\* the key function of R.map_keys_deep in process_filter_kwargs
FilterKey(k) ==
    IF \E string \in FilterSuffixes : StrContains("_" \o string, k)
    THEN DoubleUnderscores(k)
    ELSE k

\* R.map_keys_deep(key function, value): the keys of the dicts at every depth
RECURSIVE MapKeysDeep(_)
MapKeysDeep(value) ==
    IF value.kind = "dict"
    THEN DictValue([k \in {FilterKey(j) : j \in DOMAIN value.items} |->
                      MapKeysDeep(value.items[CHOOSE j \in DOMAIN value.items : FilterKey(j) = k])])
    ELSE IF value.kind = "list"
    THEN ListValue([i \in DOMAIN value.items |-> MapKeysDeep(value.items[i])])
    ELSE value

\* process_filter_kwargs(model, **kwargs); order lists the keys of kwargs
process_filter_kwargs(model, kwargs, order) ==
    flatten_query_kwargs(model,
                         [k \in {FilterKey(j) : j \in DOMAIN kwargs} |->
                            MapKeysDeep(kwargs[CHOOSE j \in DOMAIN kwargs : FilterKey(j) = k])],
                         [i \in DOMAIN order |-> FilterKey(order[i])])

(***************************************************************************)
(* The inputs and the calls of the query helpers                           *)
(***************************************************************************)
\* the fields the filter arguments of a Location are made of
QueryFieldNames == {"id", "name", "notes", "a_b", "user_input"}

\* the values of the kwargs of a relation and of a JSONField
RelatedValues ==
    {DictValue("id" :> ScalarValue(1)),
     DictValue(("id" :> ScalarValue(1)) @@ ("group" :> DictValue("id" :> ScalarValue(2)))),
     DictValue("notes_contains" :> ScalarValue(1))}

\* the paths of at most n field names, joined with '__'
PathNames == {"user", "notes", "id", "group"}
RECURSIVE Paths(_)
Paths(n) ==
    IF n = 1 THEN PathNames
    ELSE Paths(n - 1) \cup {p \o "__" \o name : p \in Paths(n - 1), name \in PathNames}

\* nothing is called yet; the settings are those of production or of testing
InitQuery ==
    /\ call = Idle
    /\ ret = NoRet
    /\ cache = <<>>
    /\ TESTING \in BOOLEAN

\* process_filter_kwargs(model, **{field_suffix: value}) with a filter argument
CallProcessFilterKwargsFilter ==
    /\ call.op = "idle"
    /\ \E field \in QueryFieldNames, suffix \in FilterSuffixes, v \in 1..2 :
          LET key == field \o "_" \o suffix
              kwargs == key :> ScalarValue(v)
          IN /\ call' = [op |-> "process_filter_kwargs", model |-> "Location",
                         kwargs |-> kwargs, key |-> key, field |-> field, suffix |-> suffix]
             /\ ret' = Returned(process_filter_kwargs("Location", kwargs, <<key>>))
    /\ UNCHANGED <<cache, TESTING>>

\* process_filter_kwargs(model, **{field: value}) with the field itself
CallProcessFilterKwargsField ==
    /\ call.op = "idle"
    /\ \E field \in QueryFieldNames \cup {"user", "data"} :
          \E value \in IF field \in {"user", "data"} THEN RelatedValues
                       ELSE {ScalarValue(1), ScalarValue(2)} :
             LET kwargs == field :> value
             IN /\ call' = [op |-> "process_filter_kwargs", model |-> "Location",
                            kwargs |-> kwargs, key |-> field, field |-> field, suffix |-> ""]
                /\ ret' = Returned(process_filter_kwargs("Location", kwargs, <<field>>))
    /\ UNCHANGED <<cache, TESTING>>

CallProcessQueryKwarg ==
    /\ call.op = "idle"
    /\ \E model \in {"Location", "User"}, path \in Paths(MaxDepth),
          lookup \in {"", "__contains"}, negation \in {"", "__not"},
          value \in {ScalarValue(1)} \cup RelatedValues :
          LET key == path \o lookup \o negation
          IN /\ call' = [op |-> "process_query_kwarg", model |-> model, key |-> key,
                         value |-> value]
             /\ ret' = Returned(process_query_kwarg(model, key, value))
    /\ UNCHANGED <<cache, TESTING>>

\* the scalar fields of a related model that a nested dict may give: each
\* is left out or given the value
ScalarLeaves(model) ==
    IF model = "User" THEN {"id", "id__not", "notes"} ELSE {"id", "name"}

\* the relation of a related model and the model it leads to
RelationOf(model) == IF model = "User" THEN "group" ELSE "user"

\* the dicts that query a related model, nested n deep at most
RECURSIVE NestedDicts(_, _)
NestedDicts(model, n) ==
    LET flat == {[k \in keys |-> ScalarValue(1)] : keys \in SUBSET ScalarLeaves(model)}
        key == RelationOf(model)
    IN IF n <= 1 THEN flat
       ELSE flat \cup {(key :> DictValue(inner)) @@ d :
                           d \in flat,
                           inner \in NestedDicts(ForwardFields(model)[key].related_model, n - 1)}

\* flatten_query_kwargs(Location, kwargs) with a nested dict for the user,
\* alone or after an id
CallFlattenQueryKwargs ==
    /\ call.op = "idle"
    /\ \E value \in NestedDicts("User", MaxDepth), with_id \in BOOLEAN :
          LET kwargs == IF with_id
                        THEN ("id" :> ScalarValue(2)) @@ ("user" :> DictValue(value))
                        ELSE "user" :> DictValue(value)
              order == OrderOfQuery(DOMAIN kwargs)
          IN /\ call' = [op |-> "flatten_query_kwargs", model |-> "Location",
                         kwargs |-> kwargs, with_id |-> with_id, value |-> DictValue(value)]
             /\ ret' = Returned(flatten_query_kwargs("Location", kwargs, order))
    /\ UNCHANGED <<cache, TESTING>>

NextQuery ==
    \/ CallProcessFilterKwargsFilter
    \/ CallProcessFilterKwargsField
    \/ CallProcessQueryKwarg
    \/ CallFlattenQueryKwargs
    \/ Return

SpecQuery == InitQuery /\ [][NextQuery]_vars

(***************************************************************************)
(* query_sequentially.  A manager or queryset is the chain of the calls    *)
(* that made it: <<>> is the manager; each call is [method, args].  The    *)
(* reduction takes one step per set; call.applied lists the calls made.    *)
(***************************************************************************)
Application(method, q_expressions_set) == [method |-> method, args |-> q_expressions_set]

\* the methods of a manager that give a queryset, and all that are passed
QuerysetMethods == {"filter", "exclude"}
ManagerMethods == {"filter", "exclude", "count", "get"}

\* the exceptions of getattr(mgr_or_queryset, method)(*args).distinct() when
\* the method gives no queryset: count takes no arguments and gives an int,
\* get gives an instance or finds none or several
ErrorsOf(method, q_expressions_set) ==
    IF method = "count"
    THEN IF q_expressions_set # <<>> THEN {TypeError} ELSE {AttributeError}
    ELSE {AttributeError, "DoesNotExist", "MultipleObjectsReturned"}

\* the sets of Q expressions of a sequential query
SetOptions ==
    { <<>>, <<Q("name", ScalarValue(1))>>,
      <<Q("name", ScalarValue(1)), Q("user__id", ScalarValue(2))>> }

RECURSIVE ListsOfSets(_)
ListsOfSets(n) ==
    IF n = 0 THEN {<<>>}
    ELSE ListsOfSets(n - 1)
           \cup {Append(l, q) : l \in {m \in ListsOfSets(n - 1) : Len(m) = n - 1},
                                q \in SetOptions}

InitSequential ==
    /\ call = Idle
    /\ ret = NoRet
    /\ cache = <<>>
    /\ TESTING = FALSE

\* the call: without sets the method is called on the manager with no
\* arguments and its result returned; with sets the reduction starts on the
\* manager
CallQuerySequentially ==
    /\ call.op = "idle"
    /\ \E manager_method \in ManagerMethods, q_expressions_sets \in ListsOfSets(MaxSets) :
          LET empty == Len(q_expressions_sets) = 0
          IN /\ call' = [op |-> "query_sequentially", manager_method |-> manager_method,
                         q_expressions_sets |-> q_expressions_sets,
                         manager_or_query |-> <<>>,
                         applied |-> IF empty THEN <<Application(manager_method, <<>>)>>
                                     ELSE <<>>,
                         done |-> empty]
             /\ ret' = IF empty THEN Returned(OK(<<Application(manager_method, <<>>)>>, <<>>))
                       ELSE NoRet
    /\ UNCHANGED <<cache, TESTING>>

\* R.equals(q_expressions, last)
IsLast(q_expressions, q_expressions_sets) ==
    q_expressions = q_expressions_sets[Len(q_expressions_sets)]

\* one step of R.reduce: _reduce on the next set
Reduce ==
    /\ call.op = "query_sequentially" /\ ~call.done
    /\ LET i == Len(call.applied) + 1
           q_expressions == call.q_expressions_sets[i]
           method == IF IsLast(q_expressions, call.q_expressions_sets)
                     THEN call.manager_method ELSE "filter"
           made == Append(call.manager_or_query, Application(method, q_expressions))
           at_end == i = Len(call.q_expressions_sets)
       IN IF method \in QuerysetMethods
          THEN /\ call' = [call EXCEPT !.applied = Append(@, Application(method, q_expressions)),
                                       !.manager_or_query = made,
                                       !.done = at_end]
               /\ ret' = IF at_end THEN Returned(OK(made, <<>>)) ELSE NoRet
          ELSE \E err \in ErrorsOf(method, q_expressions) :
                 /\ call' = [call EXCEPT !.applied = Append(@, Application(method, q_expressions)),
                                         !.done = TRUE]
                 /\ ret' = Returned(Raise(<<>>, err))
    /\ UNCHANGED <<cache, TESTING>>

\* the caller takes the response or the exception
ReturnSequential ==
    /\ call.op = "query_sequentially" /\ call.done
    /\ call' = Idle
    /\ ret' = NoRet
    /\ UNCHANGED <<cache, TESTING>>

NextSequential ==
    \/ CallQuerySequentially
    \/ Reduce
    \/ ReturnSequential

SpecSequential == InitSequential /\ [][NextSequential]_vars

(***************************************************************************)
(* graphql_query(graphene_type, fields, query_name)(client, **kwargs).      *)
(* The result is what client.execute is handed: the parts of the query     *)
(* that the template is filled with, and the variables.                    *)
(***************************************************************************)
\* lookup._meta.name of a field, '[name]' of the type of a list
TypeNameOf(lookup) ==
    IF lookup.kind = "instance" THEN lookup.of.name
    ELSE "[" \o lookup.of.name \o "]"

\* the pairs that R.map_key_values makes of the variables
VariableDefinitionPairs(field_type_lookup, variables, order) ==
    [i \in DOMAIN order |->
        << camelize(order[i], FALSE), TypeNameOf(field_type_lookup[order[i]]) >>]

\* the keys of the dict made of the pairs, in the order of insertion
RECURSIVE KeysOfPairs(_)
KeysOfPairs(pairs) ==
    IF pairs = <<>> THEN <<>>
    ELSE LET n == Len(pairs)
             before == KeysOfPairs(SubSeq(pairs, 1, n - 1))
         IN IF \E i \in DOMAIN before : before[i] = pairs[n][1]
            THEN before ELSE Append(before, pairs[n][1])

\* '(%s)' % text, or nothing
Parenthesized(text, present) == IF present THEN "(" \o text \o ")" ELSE ""

VariablesAsGiven(variables) == variables

\* R.map_keys(lambda key: camelize(key, False), variables)
CamelizedVariables(variables) ==
    [k \in {camelize(j, FALSE) : j \in DOMAIN variables} |->
        variables[CHOOSE j \in DOMAIN variables : camelize(j, FALSE) = k]]

\* kwargs = [has_variables, variables]; order lists the keys of the variables
form_query(field_type_lookup, query_name, kwargs, order) ==
    IF kwargs.has_variables /\ \E k \in DOMAIN kwargs.variables : k \notin DOMAIN field_type_lookup
    THEN Raise(<<>>, KeyError)
    ELSE
    LET pairs == IF kwargs.has_variables
                 THEN VariableDefinitionPairs(field_type_lookup, kwargs.variables, order)
                 ELSE <<>>
        variable_definitions == from_pairs(pairs)
        keys == KeysOfPairs(pairs)
        definitions == [i \in DOMAIN keys |->
                           "$" \o camelize(keys[i], FALSE) \o ": "
                               \o variable_definitions[keys[i]] \o "!"]
        formatted_definitions == join(", ", definitions)
        arguments == [i \in DOMAIN keys |-> keys[i] \o ": $" \o keys[i]]
    IN OK([query_name |-> query_name,
           definitions |-> definitions,
           variable_list |-> Parenthesized(formatted_definitions, formatted_definitions # ""),
           arguments |-> arguments,
           argument_list |-> Parenthesized(join(", ", arguments), keys # <<>>),
           variables |-> CamelizedVariables(IF kwargs.has_variables THEN kwargs.variables
                                            ELSE <<>>)],
          <<>>)

\* the lookup is made when graphql_query is called, the query when its
\* result is
FormQueryOf(lookup, query_name, kwargs, order) ==
    IF ~lookup.ok THEN lookup
    ELSE [form_query(lookup.val.fields, query_name, kwargs, order) EXCEPT !.cache = lookup.cache]

graphql_query(graphene_type, fields, query_name, kwargs, order, c) ==
    FormQueryOf(top_level_allowed_filter_arguments(fields, graphene_type, c),
                query_name, kwargs, order)

\* the fields of the two queried types: every field has its type; the
\* second type has a list of names and no region to read
QueriedTypes == {ObjectT("RootType"), ObjectT("OtherType")}
QueriedFields(graphene_type) ==
    IF graphene_type.name = "RootType"
    THEN [n \in Range(FieldOrder) |-> TypedConfig(n)]
    ELSE [n \in Range(FieldOrder) |->
            IF n = "name" THEN [TypedConfig(n) EXCEPT !.type_modifier = "List"]
            ELSE IF n = "region" THEN [TypedConfig(n) EXCEPT !.read = Flag(DENY)]
            ELSE TypedConfig(n)]

\* the keys the variables are taken from, in the order a dict lists them:
\* the fields and some of their filters, and a key that is no argument
VariableSuffixes == <<"", "_contains", "_in", "_range", "_gte", "_in_not", "_year">>
VariableKeyOrder ==
    [i \in 1..(Len(FieldOrder) * Len(VariableSuffixes)) |->
        FieldOrder[((i - 1) \div Len(VariableSuffixes)) + 1]
            \o VariableSuffixes[((i - 1) % Len(VariableSuffixes)) + 1]]
      \o <<"other">>

\* the filter arguments of the type among them
ArgumentKeys(graphene_type) ==
    Range(VariableKeyOrder)
      \cap DOMAIN top_level_allowed_filter_arguments(QueriedFields(graphene_type),
                                                      graphene_type, <<>>).val.fields

\* the sets of at most n of the keys
RECURSIVE KeySets(_, _)
KeySets(keys, n) ==
    IF n = 0 THEN {{}}
    ELSE KeySets(keys, n - 1) \cup {ks \cup {k} : ks \in KeySets(keys, n - 1), k \in keys}

CallGraphqlQuery ==
    /\ call.op = "idle"
    /\ \E graphene_type \in QueriedTypes, has_variables \in BOOLEAN :
          \E ks \in IF has_variables
                     THEN KeySets(ArgumentKeys(graphene_type) \cup {"other"}, MaxVariables)
                     ELSE {{}} :
             LET kwargs == [has_variables |-> has_variables,
                            variables |-> [k \in ks |-> 1]]
                 order == SelectSeq(VariableKeyOrder, LAMBDA k : k \in ks)
                 r == graphql_query(graphene_type, QueriedFields(graphene_type),
                                    "foos", kwargs, order, cache)
             IN /\ call' = [op |-> "graphql_query", graphene_type |-> graphene_type,
                            kwargs |-> kwargs]
                /\ ret' = Returned(r)
                /\ cache' = r.cache
    /\ UNCHANGED TESTING

NextGraphqlQuery ==
    \/ CallGraphqlQuery
    \/ Return

SpecGraphqlQuery == InitTypes /\ [][NextGraphqlQuery]_vars

(***************************************************************************)
(* Calls of allowed_filter_pairs, under the settings of production and of  *)
(* testing                                                                 *)
(***************************************************************************)
\* the graphene types of the fields that are given filters
FilteredTypes ==
    {TypeR(ScalarT(n)) : n \in {"Int", "Float", "String", "Boolean", "ID",
                                "Date", "DateTime", "JSONString"}}
      \cup {InputClass("FooTypeRelatedReadInputType", READ, <<>>)}

FilteredFieldNames == QueryFieldNames \cup {"region"}

CallAllowedFilterPairs ==
    /\ call.op = "idle"
    /\ \E field_name \in FilteredFieldNames, graphene_type \in FilteredTypes :
          /\ call' = [op |-> "allowed_filter_pairs", field_name |-> field_name,
                      graphene_type |-> graphene_type]
          /\ ret' = Returned(OK(allowed_filter_pairs(field_name, graphene_type), <<>>))
    /\ UNCHANGED <<cache, TESTING>>

NextFilters ==
    \/ CallAllowedFilterPairs
    \/ Return

SpecFilters == InitQuery /\ [][NextFilters]_vars

(***************************************************************************)
(* What the claims say of a setting, stated without the helpers above      *)
(***************************************************************************)
\* the setting is the flag, or a list of flags with the flag in it
SaysFlag(setting, flag) ==
    /\ setting.present
    /\ \/ ~setting.list /\ setting.flags = <<flag>>
       \/ setting.list /\ \E i \in DOMAIN setting.flags : setting.flags[i] = flag

\* the type key holds something other than None
HasType(t) == t.kind # "absent" /\ t.kind # "none"

(***************************************************************************)
(* C1: input_type_fields(fields_dict, crud) for a crud of create, update   *)
(* and read returns exactly the fields whose setting for the crud is not   *)
(* DENY, where DENY is the value or a list of flags that contains it: no   *)
(* denied field is in the result and no other field is dropped.            *)
(***************************************************************************)
C1_InputFieldsAreTheFieldsNotDenied ==
    (call.op = "input_type_fields" /\ call.crud \in Cruds /\ ret.ok) =>
        DOMAIN ret.val = {k \in DOMAIN call.fields_dict :
                             ~SaysFlag(call.fields_dict[k][call.crud], DENY)}

\* what the code does keep: a field whose setting is a list with DENY in it
C1_DeniedByListIsKept ==
    /\ call.op = "input_type_fields" /\ call.crud \in Cruds /\ ret.ok
    /\ \E k \in DOMAIN ret.val :
          /\ call.fields_dict[k][call.crud].list
          /\ SaysFlag(call.fields_dict[k][call.crud], DENY)

(***************************************************************************)
(* C2: in the results of allowed_read_fields and allowed_filter_arguments  *)
(* a field whose read setting is DENY, or a list with DENY in it, has no   *)
(* entry, neither its name nor any '<field>_<filter>' argument, and every  *)
(* other field has its name in the result.                                 *)
(***************************************************************************)
C2_ReadDeniedFieldsContributeNothing ==
    (call.op \in {"allowed_read_fields", "allowed_filter_arguments"} /\ ret.ok) =>
        \A f \in DOMAIN call.fields_dict :
            IF SaysFlag(call.fields_dict[f].read, DENY)
            THEN /\ f \notin DOMAIN ret.val
                 /\ \A s \in FilterSuffixes : (f \o "_" \o s) \notin DOMAIN ret.val
            ELSE f \in DOMAIN ret.val

\* filter arguments were made of a field, and none of a field denied by a list
C2_Witness ==
    /\ call.op = "allowed_filter_arguments" /\ ret.ok
    /\ \E f, g \in DOMAIN call.fields_dict :
          /\ call.fields_dict[f].read.list
          /\ SaysFlag(call.fields_dict[f].read, DENY)
          /\ ~SaysFlag(call.fields_dict[g].read, DENY)
          /\ (g \o "_contains") \in DOMAIN ret.val
          /\ (f \o "_contains") \notin DOMAIN ret.val

(***************************************************************************)
(* C3: without a type_modifier instantiate_graphene_type instantiates the  *)
(* resolved type with required=True exactly when the setting for the crud  *)
(* is REQUIRE or a list with REQUIRE in it, and with required=False        *)
(* otherwise, also when the config has no setting for the crud; with a     *)
(* type_modifier the result is type_modifier(resolved type) and no         *)
(* required flag is passed.                                                *)
(***************************************************************************)
\* the class the call resolves the type of the config to
ResolvedAs(cls, t, crud) ==
    CASE t.kind = "scalar" -> cls = [kind |-> "scalar", name |-> t.name, crud |-> "", fields |-> <<>>]
      [] t.kind = "lambda1" -> cls.kind = "applied" /\ cls.name = t.name /\ cls.crud = crud
      [] OTHER -> cls.kind = "input" /\ SubSeq(cls.name, 1, Len(t.name)) = t.name

C3_RequiredFollowsTheSetting ==
    (call.op = "instantiate_graphene_type" /\ ret.ok) =>
        LET config == call.field_config
            used == IF HasType(config.graphene_type) THEN config.graphene_type ELSE config.type
        IN /\ ResolvedAs(ret.val.of, used, call.crud)
           /\ IF config.type_modifier = NoModifier
              THEN /\ ret.val.kind = "instance"
                   /\ ret.val.required_passed
                   /\ ret.val.required = SaysFlag(config[call.crud], REQUIRE)
              ELSE /\ ret.val.kind = "modified"
                   /\ ret.val.modifier = config.type_modifier
                   /\ ~ret.val.required_passed

\* a field required by a list of flags
C3_Witness ==
    /\ call.op = "instantiate_graphene_type" /\ ret.ok
    /\ call.field_config.type_modifier = NoModifier
    /\ call.field_config[call.crud].list
    /\ ret.val.required

InputTypeNamed(name) ==
    CASE name = "createFoo" -> "CreateFooInputType"
      [] name = "updateFoo" -> "UpdateFooInputType"
      [] name = "create_data_point" -> "Create_data_pointInputType"
      [] name = "update_data_point" -> "Update_data_pointInputType"

C5_IdMeansUpdate ==
    /\ call.op = "guess_update_or_create" =>
          ret.val = (IF "id" \in DOMAIN call.fields_dict THEN "update" ELSE "create")
    /\ (call.op = "graphql_update_or_create" /\ "id" \in DOMAIN call.values) =>
          /\ ret.ok
          /\ ret.val.mutation.field = call.mutation_config.crud.update
          /\ ret.val.mutation.variable_type = InputTypeNamed(call.mutation_config.crud.update)
    /\ (call.op = "graphql_update_or_create" /\ "id" \notin DOMAIN call.values) =>
          /\ ret.ok
          /\ ret.val.mutation.field = call.mutation_config.crud.create
          /\ ret.val.mutation.variable_type = InputTypeNamed(call.mutation_config.crud.create)

\* values with an id and another field make an update mutation
C5_Witness ==
    /\ call.op = "graphql_update_or_create"
    /\ {"id", "name"} \subseteq DOMAIN call.values
    /\ ret.val.mutation.field = "updateFoo"
    /\ ret.val.mutation.variable_type = "UpdateFooInputType"

(***************************************************************************)
(* What the claims say of the parameters of update_or_create               *)
(***************************************************************************)
\* every supplied field is a field of the model, and the value of a related
\* object is a dict with its id
Supplied(fields_dict, values) ==
    \A f \in DOMAIN values \ {"id"} :
        /\ f \in DOMAIN fields_dict
        /\ fields_dict[f].django_type => values[f].is_dict

MarkedUnique(fields_dict, f) ==
    \E i \in DOMAIN fields_dict[f].unique : fields_dict[f].unique[i] = "unique"

\* the key and the value a supplied field is passed on with: a related
\* object as '<field>_id' and its id
PassedKey(fields_dict, f) == IF fields_dict[f].django_type THEN f \o "_id" ELSE f
PassedValue(fields_dict, values, f) ==
    IF fields_dict[f].django_type THEN [is_dict |-> FALSE, v |-> values[f].v] ELSE values[f]

\* the dict holds the fields, as they are passed on, and nothing else
HoldsExactly(dict, fields_dict, values, fields) ==
    /\ DOMAIN dict = {PassedKey(fields_dict, f) : f \in fields}
    /\ \A f \in fields : dict[PassedKey(fields_dict, f)] = PassedValue(fields_dict, values, f)

IsParametersCall == call.op = "input_type_parameters_for_update_or_create"

(***************************************************************************)
(* C6: input_type_parameters_for_update_or_create with an id in the        *)
(* values returns exactly the keys id and defaults; id is the supplied id, *)
(* defaults holds every other supplied field, unique or not, and never id. *)
(***************************************************************************)
C6_WithIdAllElseIsDefaults ==
    (/\ IsParametersCall
     /\ "id" \in DOMAIN call.field_name_to_value
     /\ Supplied(call.fields_dict, call.field_name_to_value)) =>
        /\ ret.ok
        /\ DOMAIN ret.val = {"id", "defaults"}
        /\ ret.val["id"] = call.field_name_to_value["id"]
        /\ HoldsExactly(ret.val["defaults"], call.fields_dict, call.field_name_to_value,
                        DOMAIN call.field_name_to_value \ {"id"})
        /\ "id" \notin DOMAIN ret.val["defaults"]

\* an id with a unique field and another field
C6_Witness ==
    /\ IsParametersCall /\ ret.ok
    /\ "id" \in DOMAIN call.field_name_to_value
    /\ \E f, g \in DOMAIN call.field_name_to_value \ {"id"} :
          /\ f # g
          /\ f \in DOMAIN call.fields_dict /\ MarkedUnique(call.fields_dict, f)
          /\ {f, g} \subseteq DOMAIN ret.val["defaults"]

(***************************************************************************)
(* C7: without an id and with at least one supplied field that is unique,  *)
(* every supplied unique field is a top-level key of the result with its   *)
(* value and every other supplied field is under defaults and not at top   *)
(* level; for every non-empty set of supplied fields, also when the only   *)
(* supplied field is a unique one.                                         *)
(***************************************************************************)
C7_UniqueFieldsAtTopLevel ==
    (/\ IsParametersCall
     /\ "id" \notin DOMAIN call.field_name_to_value
     /\ Supplied(call.fields_dict, call.field_name_to_value)
     /\ \E f \in DOMAIN call.field_name_to_value : MarkedUnique(call.fields_dict, f)) =>
        LET values == call.field_name_to_value
            unique == {f \in DOMAIN values : MarkedUnique(call.fields_dict, f)}
            others == DOMAIN values \ unique
        IN /\ ret.ok
           /\ \A f \in unique :
                 /\ PassedKey(call.fields_dict, f) \in DOMAIN ret.val
                 /\ ret.val[PassedKey(call.fields_dict, f)]
                       = PassedValue(call.fields_dict, values, f)
           /\ \A f \in others :
                 /\ PassedKey(call.fields_dict, f) \notin DOMAIN ret.val
                 /\ "defaults" \in DOMAIN ret.val
                 /\ PassedKey(call.fields_dict, f) \in DOMAIN ret.val["defaults"]
                 /\ ret.val["defaults"][PassedKey(call.fields_dict, f)]
                       = PassedValue(call.fields_dict, values, f)

\* what the code does with a single supplied field that is unique
C7_OnlyUniqueFieldFails ==
    /\ IsParametersCall
    /\ Supplied(call.fields_dict, call.field_name_to_value)
    /\ \E f \in DOMAIN call.fields_dict :
          /\ DOMAIN call.field_name_to_value = {f}
          /\ MarkedUnique(call.fields_dict, f)
    /\ ~ret.ok

(***************************************************************************)
(* C8: without an id and with no supplied field that is unique the result  *)
(* is the flat dict of the supplied fields, with no defaults key; a dict   *)
(* whose only key is defaults is never returned.                           *)
(***************************************************************************)
C8_NoUniqueFieldsGiveAFlatDict ==
    /\ (/\ IsParametersCall
        /\ "id" \notin DOMAIN call.field_name_to_value
        /\ Supplied(call.fields_dict, call.field_name_to_value)
        /\ \A f \in DOMAIN call.field_name_to_value : ~MarkedUnique(call.fields_dict, f)) =>
           /\ ret.ok
           /\ "defaults" \notin DOMAIN ret.val
           /\ HoldsExactly(ret.val, call.fields_dict, call.field_name_to_value,
                           DOMAIN call.field_name_to_value)
    /\ (IsParametersCall /\ ret.ok) => DOMAIN ret.val # {"defaults"}

\* two supplied fields, neither unique, come back flat
C8_Witness ==
    /\ IsParametersCall /\ ret.ok
    /\ "id" \notin DOMAIN call.field_name_to_value
    /\ Cardinality(DOMAIN call.field_name_to_value) = 2
    /\ \A f \in DOMAIN call.field_name_to_value :
          f \in DOMAIN call.fields_dict /\ ~MarkedUnique(call.fields_dict, f)
    /\ Cardinality(DOMAIN ret.val) = 2

(***************************************************************************)
(* C9: process_filter_kwargs converts the key 'f_s' of a field f, whose    *)
(* name may have underscores, and a filter suffix s to the lookup 'f__s':  *)
(* only the underscore between the name and the suffix is doubled; a key   *)
(* that does not end in a filter suffix reaches the Q expression           *)
(* unchanged.  A suffix 't_not' stands for the negation of the lookup t.   *)
(***************************************************************************)
\* the Q expression of the filter argument field_suffix
LookupOf(field, suffix, value) ==
    IF Len(suffix) > 4 /\ SubSeq(suffix, Len(suffix) - 3, Len(suffix)) = "_not"
    THEN [negated |-> TRUE, key |-> field \o "__" \o SubSeq(suffix, 1, Len(suffix) - 4),
          value |-> value]
    ELSE [negated |-> FALSE, key |-> field \o "__" \o suffix, value |-> value]

C9_OnlyTheSeparatorIsDoubled ==
    (call.op = "process_filter_kwargs" /\ call.kwargs[call.key].kind = "scalar") =>
        /\ ret.ok
        /\ ret.val = IF call.suffix # ""
                     THEN <<LookupOf(call.field, call.suffix, call.kwargs[call.key])>>
                     ELSE <<[negated |-> FALSE, key |-> call.key,
                             value |-> call.kwargs[call.key]]>>

\* what the code does: the underscore of the field name is doubled too
C9_FieldNameIsChanged ==
    /\ call.op = "process_filter_kwargs"
    /\ call.key = "a_b_in"
    /\ ret.ok /\ ret.val[1].key = "a__b__in"

(***************************************************************************)
(* C10: process_query_kwarg of a key k + '__not' and a value v is the one  *)
(* element list [~Q(k=v)], k being the key without its trailing '__not',   *)
(* also when k itself contains '__not'.                                    *)
(***************************************************************************)
C10_OnlyTheTrailingNotIsRemoved ==
    (call.op = "process_query_kwarg" /\ Len(call.key) > 5
        /\ SubSeq(call.key, Len(call.key) - 4, Len(call.key)) = "__not") =>
        /\ ret.ok
        /\ ret.val = <<[negated |-> TRUE, key |-> SubSeq(call.key, 1, Len(call.key) - 5),
                        value |-> call.value]>>

\* what the code does: the '__not' of 'user__notes' is removed as well
C10_InnerNotIsRemoved ==
    /\ call.op = "process_query_kwarg"
    /\ call.key = "user__notes__not"
    /\ ret.ok /\ ret.val[1].key = "useres"

(***************************************************************************)
(* C11: flatten_query_kwargs on a kwarg whose key is a forward relation    *)
(* and whose value is a nested dict, to any depth, yields exactly one Q    *)
(* expression per scalar leaf, in order, keyed by the path from the top    *)
(* key to the leaf joined with '__' and valued by the leaf.  A leaf whose  *)
(* key ends in '__not' is allowed either reading: the Q of its path, or    *)
(* the negated Q of its path without the '__not'.                          *)
(***************************************************************************)
\* the <<path, leaf>> pairs of the scalar leaves of a nested dict
RECURSIVE LeavesOf(_, _)
LeavesOf(path, value) ==
    IF value.kind # "dict" THEN << <<path, value>> >>
    ELSE LET keys == OrderOfQuery(DOMAIN value.items)
             RECURSIVE Each(_)
             Each(i) == IF i > Len(keys) THEN <<>>
                        ELSE LeavesOf(path \o "__" \o keys[i], value.items[keys[i]])
                               \o Each(i + 1)
         IN Each(1)

\* the Q expression is the one of the leaf
IsQOfLeaf(q, leaf) ==
    \/ q = Q(leaf[1], leaf[2])
    \/ /\ EndsWith(leaf[1], "__not")
       /\ q = NotQ(SubSeq(leaf[1], 1, Len(leaf[1]) - 5), leaf[2])

IsFlattenCall == call.op = "flatten_query_kwargs"

C11_OneQPerScalarLeaf ==
    IsFlattenCall =>
        LET leaves == (IF call.with_id THEN << <<"id", ScalarValue(2)>> >> ELSE <<>>)
                        \o LeavesOf("user", call.value)
        IN /\ ret.ok
           /\ Len(ret.val) = Len(leaves)
           /\ \A i \in DOMAIN leaves : IsQOfLeaf(ret.val[i], leaves[i])

\* the negation of a nested leaf is lost: {user: {id__not: 1}} gives the
\* plain Q(user__id=1)
C11_NestedNegationIsLost ==
    /\ IsFlattenCall
    /\ call.kwargs = ("user" :> DictValue("id__not" :> ScalarValue(1)))
    /\ ret.ok /\ ret.val = <<Q("user__id", ScalarValue(1))>>

\* without a negated leaf the claim holds, two relations deep
C11_PlainLeavesAreFlattened ==
    (IsFlattenCall /\ \A i \in DOMAIN LeavesOf("user", call.value) :
                         ~StrContains("__not", LeavesOf("user", call.value)[i][1]))
        => C11_OneQPerScalarLeaf

(***************************************************************************)
(* C12: query_sequentially on a non-empty list of Q expression sets        *)
(* applies the sets in list order, every set before the last with          *)
(* 'filter', and manager_method once, to the last set only: at every       *)
(* moment the calls made are the first calls of that sequence, and a call  *)
(* that returns a response has made all of them.  This is for every list,  *)
(* one with an earlier set equal to the last included.                     *)
(***************************************************************************)
\* the calls the claim describes
SequentialCalls(q_expressions_sets, manager_method) ==
    [i \in DOMAIN q_expressions_sets |->
        Application(IF i = Len(q_expressions_sets) THEN manager_method ELSE "filter",
                    q_expressions_sets[i])]

IsSequentialCall ==
    call.op = "query_sequentially" /\ Len(call.q_expressions_sets) > 0

C12_MethodOnTheLastSetOnly ==
    IsSequentialCall =>
        LET calls == SequentialCalls(call.q_expressions_sets, call.manager_method)
        IN /\ Len(call.applied) <= Len(calls)
           /\ call.applied = SubSeq(calls, 1, Len(call.applied))
           /\ (call.done /\ ret.ok) => call.applied = calls

\* an earlier set equal to the last is excluded, not filtered
C12_MethodOnAnEarlierSet ==
    /\ IsSequentialCall
    /\ call.manager_method = "exclude"
    /\ Len(call.q_expressions_sets) = 3
    /\ call.q_expressions_sets[1] = call.q_expressions_sets[3]
    /\ call.q_expressions_sets[2] # call.q_expressions_sets[3]
    /\ call.done /\ ret.ok
    /\ call.applied[1].method = "exclude"

\* when no earlier set equals the last, the claim holds
C12_HoldsWhenNoEarlierSetEqualsTheLast ==
    (IsSequentialCall
       /\ \A i \in 1..(Len(call.q_expressions_sets) - 1) :
             call.q_expressions_sets[i] # call.q_expressions_sets[Len(call.q_expressions_sets)])
        => C12_MethodOnTheLastSetOnly

(***************************************************************************)
(* C13: the result of input_type_class(field_config, crud,                 *)
(* parent_type_classes, allowed_fields_only) is determined by its          *)
(* arguments alone, field_config['fields'] included: whatever calls were   *)
(* made earlier in the process, a call returns what the same call returns  *)
(* as the first call of a process.  The same holds for                     *)
(* top_level_allowed_filter_arguments, which calls it.                     *)
(***************************************************************************)
\* the result of the call of the state when nothing was called before it
FirstCallResult ==
    IF call.op = "input_type_class"
    THEN Returned(input_type_class(call.field_config, call.crud, call.parent_type_classes,
                                   call.allowed_fields_only, <<>>))
    ELSE Returned(top_level_allowed_filter_arguments(call.fields, call.graphene_type, <<>>))

IsMemoCall == call.op \in {"input_type_class", "top_level_allowed_filter_arguments"}

C13_ResultIsDeterminedByTheArguments ==
    IsMemoCall => ret = FirstCallResult

\* a call with the fields {id} returns the class made of the fields
\* {id, name} of an earlier call
C13_FieldsOfAnEarlierCall ==
    /\ call.op = "input_type_class"
    /\ call.field_config.fields.dict = NestedIdOnly
    /\ call.crud = UPDATE /\ ~call.allowed_fields_only
    /\ ret.ok /\ "name" \in DOMAIN ret.val.fields

(***************************************************************************)
(* C14: graphql_query(...)(client, variables=V), V keyed by filter         *)
(* arguments: the variable names declared in the header, the argument      *)
(* names passed to the query field and the keys of the variables handed    *)
(* to client.execute are the same set, the camel-cased keys of V; each     *)
(* declared variable has the type name of its filter argument, '[T]' for   *)
(* a list argument, marked non-null; without variables the query has       *)
(* neither a variable list nor an argument list.                           *)
(***************************************************************************)
\* the filter arguments of the queried type
FilterArgumentsOf(graphene_type) ==
    top_level_allowed_filter_arguments(QueriedFields(graphene_type), graphene_type,
                                       <<>>).val.fields

\* the declaration of the variable of the key k
DeclarationOf(k, argument) ==
    "$" \o camelize(k, FALSE) \o ": "
        \o (IF argument.modifier = "List" THEN "[" \o argument.of.name \o "]"
            ELSE argument.of.name)
        \o "!"

IsGraphqlQueryCall ==
    /\ call.op = "graphql_query"
    /\ DOMAIN call.kwargs.variables \subseteq DOMAIN FilterArgumentsOf(call.graphene_type)

C14_VariablesDeclaredPassedAndHanded ==
    IsGraphqlQueryCall =>
        LET V == call.kwargs.variables
            names == {camelize(k, FALSE) : k \in DOMAIN V}
            arguments == FilterArgumentsOf(call.graphene_type)
        IN /\ ret.ok
           /\ Len(ret.val.definitions) = Cardinality(names)
           /\ Range(ret.val.definitions) = {DeclarationOf(k, arguments[k]) : k \in DOMAIN V}
           /\ Len(ret.val.arguments) = Cardinality(names)
           /\ Range(ret.val.arguments) = {n \o ": $" \o n : n \in names}
           /\ DOMAIN ret.val.variables = names
           /\ ret.val.variable_list =
                 (IF names = {} THEN "" ELSE "(" \o join(", ", ret.val.definitions) \o ")")
           /\ ret.val.argument_list =
                 (IF names = {} THEN "" ELSE "(" \o join(", ", ret.val.arguments) \o ")")

\* a query with a list variable and a variable of a field with an underscore
C14_Witness ==
    /\ IsGraphqlQueryCall
    /\ DOMAIN call.kwargs.variables = {"id_in", "a_b_gte"}
    /\ ret.ok
    /\ ret.val.variable_list = "($idIn: [Int]!, $aBGte: DateTime!)"
    /\ ret.val.argument_list = "(idIn: $idIn, aBGte: $aBGte)"
    /\ DOMAIN ret.val.variables = {"idIn", "aBGte"}

\* a query without variables
C14_NoVariables ==
    /\ IsGraphqlQueryCall
    /\ ~call.kwargs.has_variables
    /\ ret.ok /\ ret.val.variable_list = "" /\ ret.val.argument_list = ""

(***************************************************************************)
(* C15: allowed_filter_pairs(field_name, graphene_type) returns exactly    *)
(* one pair per suffix of FILTER_FIELDS that declares no allowed_types or  *)
(* declares one of which graphene_type is a subclass, and none for the     *)
(* other suffixes; each pair is named '<field_name>_<suffix>' and typed    *)
(* type_modifier(graphene_type) when the suffix has a type_modifier, a     *)
(* list for 'in' and 'range', and an instance of graphene_type otherwise.  *)
(***************************************************************************)
\* the entry of FILTER_FIELDS is one for the type
SuffixIsFor(entry, graphene_type) ==
    \/ ~entry.restricted
    \/ \E typ \in entry.allowed : IsSubclass(graphene_type, typ)

IsFilterPairsCall == call.op = "allowed_filter_pairs"

C15_OnePairPerAllowedSuffix ==
    IsFilterPairsCall =>
        LET entries == {FILTER_FIELDS[i] : i \in DOMAIN FILTER_FIELDS}
            allowed == {e \in entries : SuffixIsFor(e, call.graphene_type)}
        IN /\ ret.ok
           /\ Len(ret.val) = Cardinality(allowed)
           /\ {ret.val[i][1] : i \in DOMAIN ret.val}
                 = {call.field_name \o "_" \o e.suffix : e \in allowed}
           /\ \A i \in DOMAIN ret.val : \A e \in allowed :
                 ret.val[i][1] = call.field_name \o "_" \o e.suffix
                   => /\ ret.val[i][2].of = call.graphene_type
                      /\ ret.val[i][2].kind =
                            (IF e.modifier # NoModifier THEN "modified" ELSE "instance")
                      /\ ret.val[i][2].modifier = e.modifier
                      /\ e.suffix \in {"in", "range"} => ret.val[i][2].modifier = "List"

\* the filters of a DateTime field in production: a year, a list for 'in',
\* nothing for the filters of strings
C15_Witness ==
    /\ IsFilterPairsCall /\ ~TESTING
    /\ call.field_name = "a_b" /\ call.graphene_type = TypeR(ScalarT("DateTime"))
    /\ ret.ok
    /\ \E i \in DOMAIN ret.val :
          ret.val[i] = <<"a_b_year", Instantiated(TypeR(ScalarT("DateTime")))>>
    /\ \E i \in DOMAIN ret.val :
          ret.val[i] = <<"a_b_in", Modified("List", TypeR(ScalarT("DateTime")))>>
    /\ \A i \in DOMAIN ret.val : ret.val[i][1] # "a_b_startswith"

====
